---------------------------- MODULE Spec2Model ----------------------------
(***************************************************************************)
(* A model of monday_board_extractor: MondayColumnExtractor._build_query,  *)
(* _fetch_data, _extract_to_dataframe and extract.                         *)
(*                                                                         *)
(* Python values are modelled as follows.  A str that the program builds   *)
(* character by character (the query text) is a sequence of one-character  *)
(* strings; every other str is a TLA+ string.  A JSON object is a function *)
(* whose DOMAIN is the set of keys present, a JSON array is a sequence.    *)
(* A Python dict built by the program is an insertion-ordered sequence of  *)
(* <<key, value>> pairs with unique keys.  A pandas DataFrame is a record  *)
(* [columns, rows]: the column labels in order (labels may repeat after a  *)
(* rename) and, per row, the cells in column order.                        *)
(***************************************************************************)
EXTENDS Integers, Sequences, FiniteSets, TLC

VARIABLES
    self,        \* the extractor: [api_key, board_ids, url, headers]
    server,      \* the JSON document the API answers with (environment)
    pc,          \* where the caller's call of extract stands
    requests,    \* the HTTP POSTs issued by the current call, in order
    response,    \* what requests.post produced: [kind, status_code, is_json]
    log,         \* the logging.error records of the current call
    data,        \* extract: data
    boards,      \* extract: boards
    i,           \* extract: index of the board the for loop is at
    name,        \* extract: name
    items,       \* extract: items
    rows,        \* _extract_to_dataframe: rows, as of its return
    df,          \* extract: df
    column_map,  \* extract: column_map
    result,      \* extract: result
    returned,    \* the list extract returned to its caller
    raised       \* the exception extract propagated to its caller

vars == <<self, server, pc, requests, response, log, data, boards, i, name,
          items, rows, df, column_map, result, returned, raised>>

(***************************************************************************)
(* Bounds of the model.                                                    *)
(***************************************************************************)
MaxBoardIds == 2
MaxBoards == 2
MaxItems == 2
MaxColumnValues == 2
MaxColumns == 2

SeqsUpTo(S, n) == UNION {[1..k -> S] : k \in 0..n}

(***************************************************************************)
(* Python None, and the null cell of a DataFrame.  pandas writes NaN in a  *)
(* cell no row dict has a key for; a None a row dict holds stays None or   *)
(* becomes NaN, depending on the other cells of the column and on the      *)
(* pandas version.  NaN stands for both: a cell is a text or is null.      *)
(***************************************************************************)
None == "<None>"
NaN == "<NaN>"

Has(obj, key) == key \in DOMAIN obj
\* dict.get(key, default)
Get(obj, key, default) == IF Has(obj, key) THEN obj[key] ELSE default

(***************************************************************************)
(* str(), str.join() and the query template.                               *)
(***************************************************************************)
Digit == <<"0", "1", "2", "3", "4", "5", "6", "7", "8", "9">>

RECURSIVE IntStr(_)
IntStr(n) ==
    IF n < 10 THEN <<Digit[n + 1]>>
    ELSE IntStr(n \div 10) \o <<Digit[(n % 10) + 1]>>

\* str(x) of a board identifier: an int prints in decimal, a str is itself.
Str(x) == IF x.kind = "int" THEN IntStr(x.val) ELSE x.val

RECURSIVE Join(_, _)
Join(sep, parts) ==
    IF parts = <<>> THEN <<>>
    ELSE IF Len(parts) = 1 THEN parts[1]
    ELSE parts[1] \o sep \o Join(sep, Tail(parts))

ItemsPageLimit == 500

QueryHead == <<"query", "{", "boards", "(", "ids", ":", "[">>

QueryTailNoLimit ==
    <<"]", ")", "{", "name", "columns", "{", "id", "title", "}",
      "items_page", "{", "items", "{", "id",
      "column_values", "{", "id", "text", "}", "}", "}", "}", "}">>

QueryTail ==
    <<"]", ")", "{", "name", "columns", "{", "id", "title", "}",
      "items_page", "(", "limit", ":">> \o IntStr(ItemsPageLimit)
    \o <<")", "{", "items", "{", "id", "name",
         "# This is the \"Item\" column",
         "column_values", "{", "id", "text", "}", "}", "}", "}", "}">>

BoardIdsStr(board_ids) ==
    Join(<<",", " ">>, [k \in 1..Len(board_ids) |-> Str(board_ids[k])])

\* _build_query_1: the query without the page limit and the item name.
BuildQuery1(board_ids) ==
    QueryHead \o BoardIdsStr(board_ids) \o QueryTailNoLimit

BuildQuery(board_ids) ==
    QueryHead \o BoardIdsStr(board_ids) \o QueryTail

(***************************************************************************)
(* Insertion-ordered dicts.                                                *)
(***************************************************************************)
DictKeys(d) == [k \in 1..Len(d) |-> d[k][1]]
DictKeySet(d) == {d[k][1] : k \in 1..Len(d)}
DictHas(d, key) == key \in DictKeySet(d)
DictGet(d, key) == d[CHOOSE k \in 1..Len(d) : d[k][1] = key][2]
\* d[key] = value: an existing key keeps its place, a new one goes last.
DictSet(d, key, value) ==
    IF DictHas(d, key)
    THEN [k \in 1..Len(d) |-> IF d[k][1] = key THEN <<key, value>> ELSE d[k]]
    ELSE Append(d, <<key, value>>)

(***************************************************************************)
(* _extract_to_dataframe.                                                  *)
(***************************************************************************)
\* {col['id']: col.get('text') for col in column_values}
RECURSIVE DictOfColumnValues(_)
DictOfColumnValues(column_values) ==
    IF column_values = <<>> THEN <<>>
    ELSE LET n == Len(column_values)
             col == column_values[n]
         IN  DictSet(DictOfColumnValues(SubSeq(column_values, 1, n - 1)),
                     col["id"], Get(col, "text", None))

RowDict(item) ==
    DictSet(DictOfColumnValues(Get(item, "column_values", <<>>)),
            "Item", Get(item, "name", None))

\* col['id'] raises KeyError for a column value without an id.
RowDictRaises(item) ==
    \E k \in 1..Len(Get(item, "column_values", <<>>)) :
        ~Has(item["column_values"][k], "id")

RowDicts(its) == [k \in 1..Len(its) |-> RowDict(its[k])]

\* The labels of pd.DataFrame(rows): every key, in order of first appearance.
RECURSIVE UnionOfKeys(_)
UnionOfKeys(rs) ==
    IF rs = <<>> THEN <<>>
    ELSE LET n == Len(rs)
             before == UnionOfKeys(SubSeq(rs, 1, n - 1))
             seen == {before[k] : k \in 1..Len(before)}
         IN  before \o SelectSeq(DictKeys(rs[n]), LAMBDA key : key \notin seen)

\* pd.DataFrame(rows, columns=rows[0].keys()): the first row's keys only.
DataFrameOfFirstKeys(rs) ==
    LET labels == IF rs = <<>> THEN <<>> ELSE DictKeys(rs[1])
    IN  [columns |-> labels,
         rows |-> [r \in 1..Len(rs) |->
                     [c \in 1..Len(labels) |->
                        IF DictHas(rs[r], labels[c])
                           /\ DictGet(rs[r], labels[c]) # None
                        THEN DictGet(rs[r], labels[c]) ELSE NaN]]]

\* pd.DataFrame(rows) of a list of dicts.
DataFrame(rs) ==
    LET labels == UnionOfKeys(rs)
    IN  [columns |-> labels,
         rows |-> [r \in 1..Len(rs) |->
                     [c \in 1..Len(labels) |->
                        IF DictHas(rs[r], labels[c])
                           /\ DictGet(rs[r], labels[c]) # None
                        THEN DictGet(rs[r], labels[c]) ELSE NaN]]]

\* pd.DataFrame(rows, columns=...) that names the Item column itself.
ExtractToDataframeNamingItem(its) ==
    IF its = <<>> THEN [columns |-> <<"Item">>, rows |-> <<>>]
    ELSE DataFrame(RowDicts(its))

ExtractToDataframe(its) == DataFrame(RowDicts(its))

(***************************************************************************)
(* The rename of extract.                                                  *)
(***************************************************************************)
\* {col['id']: col['title'] for col in board.get('columns', [])}
RECURSIVE ColumnMap(_)
ColumnMap(columns) ==
    IF columns = <<>> THEN <<>>
    ELSE LET n == Len(columns)
         IN  DictSet(ColumnMap(SubSeq(columns, 1, n - 1)),
                     columns[n]["id"], columns[n]["title"])

ColumnMapRaises(columns) ==
    \E k \in 1..Len(columns) :
        ~Has(columns[k], "id") \/ ~Has(columns[k], "title")

\* df.rename(columns=column_map) whose result is dropped (no inplace=True).
RenameDropped(frame, mapping) == frame

\* df.rename(columns=column_map, inplace=True)
Rename(frame, mapping) ==
    [frame EXCEPT !.columns =
        [c \in 1..Len(frame.columns) |->
            IF DictHas(mapping, frame.columns[c])
            THEN DictGet(mapping, frame.columns[c])
            ELSE frame.columns[c]]]

BoardData(n, d) == [name |-> n, data |-> d]

(***************************************************************************)
(* The extractor and the API's answers the model draws from.               *)
(***************************************************************************)
Url == "https://api.monday.com/v2"

\* MondayColumnExtractor.__init__
Extractor(api_key, board_ids) ==
    [api_key |-> api_key,
     board_ids |-> board_ids,
     url |-> Url,
     headers |-> ("Authorization" :> api_key)
                 @@ ("Content-Type" :> "application/json")]

IntId(n) == [kind |-> "int", val |-> n]
StrId(s) == [kind |-> "str", val |-> s]
\* Identifiers a caller may pass: ints, a numeric str, and strs that carry
\* the separator or the closing bracket of the ids argument.
BoardIds ==
    {IntId(7), IntId(1205), StrId(<<"4", "2">>),
     StrId(<<"1", ",", " ", "2">>), StrId(<<"9", "]", ")">>)}

ColumnValue(id, text) == [id |-> id, text |-> text]
Column(id, title) == [id |-> id, title |-> title]
Item(id, n, column_values) ==
    [id |-> id, name |-> n, column_values |-> column_values]
Board(n, columns, its) ==
    [name |-> n, columns |-> columns, items_page |-> [items |-> its]]
Answer(bs) == [data |-> [boards |-> bs]]

ColumnIds == {"c1", "c2", "Item"}
Texts == {"Done", None}
Titles == {"Status", "Item", "Owner"}
ItemNames == {"Task A", "Task B"}

ColumnValues == {ColumnValue(id, text) : id \in ColumnIds, text \in Texts}
Columns == {Column(id, title) : id \in ColumnIds \ {"c2"}, title \in Titles}

\* One board, one item, every list of column values.
RowAnswers ==
    {Answer(<<Board("B1", <<Column("c1", "Status")>>,
                    <<Item("1", "Task A", cvs)>>)>>) :
        cvs \in SeqsUpTo(ColumnValues, MaxColumnValues)}

ItemShapes ==
    {<<>>, <<ColumnValue("c1", "Done")>>,
     <<ColumnValue("c2", None), ColumnValue("c1", "Low")>>,
     <<ColumnValue("Item", "Done"), ColumnValue("c2", "High")>>}
TableItems ==
    {Item("1", n, cvs) : n \in ItemNames, cvs \in ItemShapes}
TableColumns ==
    {Column(id, title) : id \in {"c1", "Item"}, title \in {"Status", "Item"}}
\* One board, every list of items under every list of column definitions.
TableAnswers ==
    {Answer(<<Board("B1", columns, its)>>) :
        columns \in SeqsUpTo(TableColumns, MaxColumns),
        its \in SeqsUpTo(TableItems, MaxItems)}

RenameItemLists ==
    {<<>>,
     <<Item("1", "Task A", <<ColumnValue("c1", "Done")>>)>>,
     <<Item("1", "Task A", <<ColumnValue("c1", "Done")>>),
       Item("2", "Task B", <<ColumnValue("c2", "High"),
                             ColumnValue("Item", "Low")>>)>>}
\* One board, every list of column definitions.
RenameAnswers ==
    {Answer(<<Board("B1", columns, its)>>) :
        columns \in SeqsUpTo(Columns, MaxColumns),
        its \in RenameItemLists}

SampleBoards ==
    {Board("B1", <<Column("c1", "Status")>>,
           <<Item("1", "Task A", <<ColumnValue("c1", "Done")>>)>>),
     Board("B2", <<Column("c1", "Owner"), Column("c2", "Status")>>,
           <<Item("1", "Task B", <<ColumnValue("c2", "High")>>),
             Item("2", "Task C", <<ColumnValue("c1", "Ann")>>)>>),
     Board("B3", <<Column("c1", "Status")>>, <<>>),
     Board("B4", <<>>,
           <<Item("1", "Task D", <<ColumnValue("c1", "Low")>>)>>)}
\* Every list of boards.
BoardsAnswers == {Answer(bs) : bs \in SeqsUpTo(SampleBoards, MaxBoards)}

DropKey(obj, key) == [k \in DOMAIN obj \ {key} |-> obj[k]]
\* seq with its k-th element replaced by e
Put(seq, k, e) == [seq EXCEPT ![k] = e]

\* The board with one key of the expected shape missing, at any depth.
DamagedBoards(b) ==
    {DropKey(b, key) : key \in {"name", "columns", "items_page"}}
    \cup {[b EXCEPT !.items_page = DropKey(b.items_page, "items")]}
    \cup {[b EXCEPT !.columns = Put(b.columns, k, DropKey(b.columns[k], key))] :
            k \in 1..Len(b.columns), key \in {"id", "title"}}
    \cup {[b EXCEPT !.items_page.items =
              Put(b.items_page.items, k, DropKey(b.items_page.items[k], key))] :
            k \in 1..Len(b.items_page.items), key \in {"name", "column_values"}}
    \cup UNION {
          {[b EXCEPT !.items_page.items[k].column_values =
               Put(b.items_page.items[k].column_values, c,
                   DropKey(b.items_page.items[k].column_values[c], key))] :
             c \in 1..Len(b.items_page.items[k].column_values),
             key \in {"id", "text"}} :
          k \in 1..Len(b.items_page.items)}

\* The answer with one key of the expected shape missing, at any depth.
DamagedAnswers(a) ==
    {DropKey(a, "data"), [data |-> DropKey(a.data, "boards")]}
    \cup UNION {
          {Answer(Put(a.data.boards, k, d)) : d \in DamagedBoards(a.data.boards[k])} :
          k \in 1..Len(a.data.boards)}

ShapeAnswers == UNION {DamagedAnswers(a) : a \in BoardsAnswers}

DefaultAnswer ==
    Answer(<<Board("B1", <<Column("c1", "Status")>>,
                   <<Item("1", "Task A", <<ColumnValue("c1", "Done")>>)>>)>>)

NoResponse == [kind |-> "none", status_code |-> 0, is_json |-> FALSE]
NoFrame == [columns |-> <<>>, rows |-> <<>>]

\* The locals of a call of extract that has not started.
Idle ==
    /\ pc = "idle"
    /\ requests = <<>>
    /\ response = NoResponse
    /\ log = <<>>
    /\ data = <<>>
    /\ boards = <<>>
    /\ i = 1
    /\ name = None
    /\ items = <<>>
    /\ rows = <<>>
    /\ df = NoFrame
    /\ column_map = <<>>
    /\ result = <<>>
    /\ returned = <<>>
    /\ raised = None

Init ==
    /\ \/ /\ self \in {Extractor("key", ids) : ids \in SeqsUpTo(BoardIds, MaxBoardIds)}
          /\ server \in BoardsAnswers
       \/ /\ self = Extractor("key", <<IntId(7), IntId(1205)>>)
          /\ server \in RowAnswers \cup TableAnswers \cup RenameAnswers
                        \cup ShapeAnswers
    /\ Idle

(***************************************************************************)
(* _fetch_data.                                                            *)
(***************************************************************************)
StatusCodes == {200, 304, 404, 503}

\* A status check that raises for a 5xx status only.
RaisesForServerError(status_code) == 500 <= status_code /\ status_code < 600

\* response.raise_for_status(): HTTPError for a 4xx or a 5xx status.
RaisesForStatus(status_code) == 400 <= status_code /\ status_code < 600

Post(u, query, headers) == [url |-> u, json |-> [query |-> query], headers |-> headers]

\* What _fetch_data leaves behind when it re-raises from an except branch.
FetchRaise(message, exception) ==
    /\ log' = Append(log, message)
    /\ raised' = exception
    /\ pc' = "raised"
    /\ data' = data

\* _fetch_data that posts again after a failed request.
FetchDataRetry ==
    /\ pc = "idle"
    /\ \E kind \in {"ConnectionError", "Response"}, status_code \in StatusCodes,
          is_json \in BOOLEAN :
        LET post == Post(self.url, BuildQuery(self.board_ids), self.headers)
            failed == kind = "ConnectionError" \/ RaisesForStatus(status_code)
        IN  /\ kind = "ConnectionError" => (status_code = 200 /\ ~is_json)
            /\ requests' = IF failed THEN <<post, post>> ELSE <<post>>
            /\ response' = [kind |-> kind, status_code |-> status_code,
                            is_json |-> is_json]
            /\ IF kind = "ConnectionError"
               THEN FetchRaise("Request failed", "ConnectionError")
               ELSE IF RaisesForStatus(status_code)
               THEN FetchRaise("Request failed", "HTTPError")
               ELSE IF ~is_json
               THEN FetchRaise("Request failed", "JSONDecodeError")
               ELSE /\ data' = server
                    /\ pc' = "fetched"
                    /\ UNCHANGED <<log, raised>>
    /\ UNCHANGED <<self, server, boards, i, name, items, rows, df, column_map,
                   result, returned>>

\* _fetch_data, called first thing by extract.  A body that is no JSON
\* makes response.json() raise requests' JSONDecodeError, a RequestException.
FetchData ==
    /\ pc = "idle"
    /\ \E kind \in {"ConnectionError", "Response"}, status_code \in StatusCodes,
          is_json \in BOOLEAN :
        /\ kind = "ConnectionError" => (status_code = 200 /\ ~is_json)
        /\ requests' = Append(requests,
                          Post(self.url, BuildQuery(self.board_ids), self.headers))
        /\ response' = [kind |-> kind, status_code |-> status_code,
                        is_json |-> is_json]
        /\ IF kind = "ConnectionError"
           THEN FetchRaise("Request failed", "ConnectionError")
           ELSE IF RaisesForStatus(status_code)
           THEN FetchRaise("Request failed", "HTTPError")
           ELSE IF ~is_json
           THEN FetchRaise("Request failed", "JSONDecodeError")
           ELSE /\ data' = server
                /\ pc' = "fetched"
                /\ UNCHANGED <<log, raised>>
    /\ UNCHANGED <<self, server, boards, i, name, items, rows, df, column_map,
                   result, returned>>

(***************************************************************************)
(* extract.                                                                *)
(***************************************************************************)
\* A KeyError caught around the loop, the list built so far returned.
RaiseKeyErrorSwallowed ==
    /\ raised' = raised
    /\ pc' = "returned"

\* A subscript of extract or _extract_to_dataframe raises KeyError, which
\* nothing catches or logs.
RaiseKeyError ==
    /\ raised' = "KeyError"
    /\ pc' = "raised"

\* boards = data['data']['boards']; result = []
GetBoards ==
    /\ pc = "fetched"
    /\ IF Has(data, "data") /\ Has(data["data"], "boards")
       THEN /\ boards' = data["data"]["boards"]
            /\ result' = <<>>
            /\ i' = 1
            /\ pc' = "loop"
            /\ UNCHANGED raised
       ELSE /\ RaiseKeyError
            /\ UNCHANGED <<boards, result, i>>
    /\ UNCHANGED <<self, server, requests, response, log, data, name, items,
                   rows, df, column_map, returned>>

\* The loop body up to df = self._extract_to_dataframe(items).
FlattenBoard ==
    /\ pc = "loop"
    /\ i <= Len(boards)
    /\ LET board == boards[i]
           hasItems == Has(board, "name") /\ Has(board, "items_page")
                       /\ Has(board["items_page"], "items")
           its == board["items_page"]["items"]
       IN  /\ name' = IF Has(board, "name") THEN board["name"] ELSE name
           /\ items' = IF hasItems THEN its ELSE items
           /\ IF hasItems /\ \A k \in 1..Len(its) : ~RowDictRaises(its[k])
              THEN /\ rows' = RowDicts(its)
                   /\ df' = ExtractToDataframe(its)
                   /\ pc' = "flattened"
                   /\ UNCHANGED raised
              ELSE /\ RaiseKeyError
                   /\ UNCHANGED <<rows, df>>
    /\ UNCHANGED <<self, server, requests, response, log, data, boards, i,
                   column_map, result, returned>>

\* The loop body that keeps column_map from one board to the next.
RenameBoardKeepingMap ==
    /\ pc = "flattened"
    /\ LET columns == Get(boards[i], "columns", <<>>)
       IN  IF ColumnMapRaises(columns)
           THEN /\ RaiseKeyError
                /\ UNCHANGED <<column_map, df, result, i>>
           ELSE /\ column_map' = column_map \o ColumnMap(columns)
                /\ df' = Rename(df, column_map')
                /\ result' = Append(result, BoardData(name, df'))
                /\ i' = i + 1
                /\ pc' = "loop"
                /\ UNCHANGED raised
    /\ UNCHANGED <<self, server, requests, response, log, data, boards, name,
                   items, rows, returned>>

\* The loop body from column_map = {...} to result.append(...).
RenameBoard ==
    /\ pc = "flattened"
    /\ LET columns == Get(boards[i], "columns", <<>>)
       IN  IF ColumnMapRaises(columns)
           THEN /\ RaiseKeyError
                /\ UNCHANGED <<column_map, df, result, i>>
           ELSE /\ column_map' = ColumnMap(columns)
                /\ df' = Rename(df, column_map')
                /\ result' = Append(result, BoardData(name, df'))
                /\ i' = i + 1
                /\ pc' = "loop"
                /\ UNCHANGED raised
    /\ UNCHANGED <<self, server, requests, response, log, data, boards, name,
                   items, rows, returned>>

\* return result
Return ==
    /\ pc = "loop"
    /\ i > Len(boards)
    /\ returned' = result
    /\ pc' = "returned"
    /\ UNCHANGED <<self, server, requests, response, log, data, boards, i,
                   name, items, rows, df, column_map, result, raised>>

\* The caller calls extract again: a call starts with fresh locals.
Again ==
    /\ pc \in {"returned", "raised"}
    /\ pc' = "idle"
    /\ requests' = <<>>
    /\ response' = NoResponse
    /\ log' = <<>>
    /\ data' = <<>>
    /\ boards' = <<>>
    /\ i' = 1
    /\ name' = None
    /\ items' = <<>>
    /\ rows' = <<>>
    /\ df' = NoFrame
    /\ column_map' = <<>>
    /\ result' = <<>>
    /\ returned' = <<>>
    /\ raised' = None
    /\ UNCHANGED <<self, server>>

Next ==
    \/ FetchData
    \/ GetBoards
    \/ FlattenBoard
    \/ RenameBoard
    \/ Return
    \/ Again

Spec == Init /\ [][Next]_vars

(***************************************************************************)
(* What the properties below read off a response.                          *)
(***************************************************************************)
ColumnValuesOf(item) == IF Has(item, "column_values") THEN item["column_values"] ELSE <<>>
DisplayNameOf(item) == IF Has(item, "name") THEN item["name"] ELSE None
TextOf(cv) == IF Has(cv, "text") THEN cv["text"] ELSE None
ColumnsOf(board) == IF Has(board, "columns") THEN board["columns"] ELSE <<>>
ItemsOf(board) == board["items_page"]["items"]
IdsOf(cvs) == {cvs[k]["id"] : k \in 1..Len(cvs)}
Last(S) == CHOOSE k \in S : \A j \in S : j <= k
\* A value as a cell shows it: None is a null cell.
CellOf(value) == IF value = None THEN NaN ELSE value

(***************************************************************************)
(* C1.  When _extract_to_dataframe has run on a board's items, there is    *)
(* one record per item; its key set is exactly the column ids of the       *)
(* item's column_values plus "Item"; every column-id key holds the text of *)
(* a column value of the item with that id (None when the text is absent); *)
(* "Item" holds the item's display name.                                   *)
(***************************************************************************)
C1_RecordPerItem ==
    pc = "flattened" =>
        /\ Len(rows) = Len(items)
        /\ \A r \in 1..Len(items) :
            LET cvs == ColumnValuesOf(items[r])
            IN  /\ DictKeySet(rows[r]) = IdsOf(cvs) \cup {"Item"}
                /\ \A key \in IdsOf(cvs) :
                      \E k \in 1..Len(cvs) :
                          /\ cvs[k]["id"] = key
                          /\ DictGet(rows[r], key) = TextOf(cvs[k])
                /\ DictGet(rows[r], "Item") = DisplayNameOf(items[r])

(***************************************************************************)
(* C2.  For a board with at least one item the assembled table has one row *)
(* per item in item order, its labels are distinct and are exactly the     *)
(* union of the records' key sets, and each cell holds the value its own   *)
(* item's record has under the label (null for None), or is null when that *)
(* record lacks the label.                                                 *)
(***************************************************************************)
C2_TableIsUnionOfRecords ==
    (pc = "flattened" /\ items # <<>>) =>
        /\ Len(df.rows) = Len(items)
        /\ {df.columns[c] : c \in 1..Len(df.columns)}
              = UNION {DictKeySet(rows[r]) : r \in 1..Len(rows)}
        /\ \A c, d \in 1..Len(df.columns) : df.columns[c] = df.columns[d] => c = d
        /\ \A r \in 1..Len(items) :
            /\ Len(df.rows[r]) = Len(df.columns)
            /\ \A c \in 1..Len(df.columns) :
                  LET hits == {k \in 1..Len(rows[r]) : rows[r][k][1] = df.columns[c]}
                  IN  IF hits = {} THEN df.rows[r][c] = NaN
                      ELSE \A k \in hits : df.rows[r][c] = CellOf(rows[r][k][2])

\* Two items with disjoint column ids have been assembled into one table.
C2_Witness ==
    /\ pc = "flattened"
    /\ Len(items) = 2
    /\ IdsOf(ColumnValuesOf(items[1])) = {"c1"}
    /\ IdsOf(ColumnValuesOf(items[2])) = {"Item", "c2"}
    /\ df.columns = <<"c1", "Item", "c2">>
    /\ df.rows[1][3] = NaN
    /\ df.rows[2][1] = NaN

\* What the renaming step of the loop body does to df and result.
C3_RenameStep ==
    (pc = "flattened" /\ pc' = "loop") =>
        LET columns == ColumnsOf(boards[i])
        IN  /\ Len(df'.columns) = Len(df.columns)
            /\ df'.rows = df.rows
            /\ \A c \in 1..Len(df.columns) :
                  LET hits == {k \in 1..Len(columns) : columns[k]["id"] = df.columns[c]}
                  IN  IF hits = {} THEN df'.columns[c] = df.columns[c]
                      ELSE df'.columns[c] = columns[Last(hits)]["title"]
            /\ columns = <<>> => df' = df
            /\ result' = Append(result, [name |-> name, data |-> df'])

(***************************************************************************)
(* C3.  The step of extract that renames acts once on the assembled table: *)
(* a label that is the id of a column definition of this board becomes     *)
(* that definition's title (the last one, should the id repeat), any other *)
(* label stays, the cells stay, an empty column list changes nothing, and  *)
(* the renamed table is what is appended to the result.                    *)
(***************************************************************************)
C3_RenameAfterAssembly == [][C3_RenameStep]_vars

\* A finished table with a renamed label beside one the metadata lacks.
C3_Witness ==
    /\ pc = "loop"
    /\ Len(result) = 1
    /\ ColumnsOf(boards[1]) = <<Column("c1", "Status")>>
    /\ result[1].data.columns = <<"Status", "Item", "c2">>
    /\ Len(result[1].data.rows) = 2

(***************************************************************************)
(* C4.  Every finished table of a board with at least one item has a field *)
(* labelled "Item" that holds, row by row, the items' display names.       *)
(***************************************************************************)
C4_ItemFieldKept ==
    \A b \in 1..Len(result) :
        ItemsOf(boards[b]) # <<>> =>
            \E c \in 1..Len(result[b].data.columns) :
                /\ result[b].data.columns[c] = "Item"
                /\ \A r \in 1..Len(ItemsOf(boards[b])) :
                      result[b].data.rows[r][c]
                          = CellOf(DisplayNameOf(ItemsOf(boards[b])[r]))

(***************************************************************************)
(* C5.  A board without items gets the empty table, no rows and no         *)
(* columns, whatever its column definitions: both as assembled and as      *)
(* appended to the result.                                                 *)
(***************************************************************************)
C5_NoItemsNoTable ==
    /\ (pc = "flattened" /\ items = <<>>) => df = [columns |-> <<>>, rows |-> <<>>]
    /\ \A b \in 1..Len(result) :
          ItemsOf(boards[b]) = <<>> =>
              /\ result[b].data.columns = <<>>
              /\ result[b].data.rows = <<>>

\* A board with column definitions and no items is in the returned list.
C5_Witness ==
    /\ pc = "returned"
    /\ \E b \in 1..Len(returned) :
          /\ ItemsOf(boards[b]) = <<>>
          /\ ColumnsOf(boards[b]) # <<>>
          /\ returned[b].data.columns = <<>>

\* The call ended in one of the exceptions, logged once, after one request.
TransportAborted(exceptions) ==
    /\ pc = "raised"
    /\ raised \in exceptions
    /\ log = <<"Request failed">>
    /\ Len(requests) = 1
    /\ result = <<>>
    /\ returned = <<>>

(***************************************************************************)
(* C6.  As stated: a connection error or any status outside 200..299 ends  *)
(* the call with an error logged and re-raised, one request made, nothing  *)
(* returned.                                                               *)
(***************************************************************************)
C6_NonSuccessStatusAborts ==
    /\ response.kind = "ConnectionError" => TransportAborted({"ConnectionError"})
    /\ (response.kind = "Response" /\ response.status_code \notin 200..299)
          => TransportAborted({"HTTPError", "JSONDecodeError"})

(***************************************************************************)
(* C6, amended.  A connection error or a 4xx or 5xx status ends the call   *)
(* with the error logged once and re-raised, one request made (no retry),  *)
(* and nothing returned.                                                   *)
(***************************************************************************)
C6_TransportFailureAborts ==
    /\ response.kind = "ConnectionError" => TransportAborted({"ConnectionError"})
    /\ (response.kind = "Response" /\ response.status_code \in 400..599)
          => TransportAborted({"HTTPError"})

\* A 404 answer has ended a call that asked for two boards.
C6_Witness ==
    /\ response.kind = "Response"
    /\ response.status_code = 404
    /\ Len(self.board_ids) = 2
    /\ pc = "raised"
    /\ raised = "HTTPError"

(***************************************************************************)
(* The shape of a response: every key of the expected shape present, and  *)
(* the keys whose absence extract does not tolerate.                       *)
(***************************************************************************)
FullShape(a) ==
    /\ Has(a, "data")
    /\ Has(a["data"], "boards")
    /\ \A b \in 1..Len(a["data"]["boards"]) :
        LET board == a["data"]["boards"][b]
        IN  /\ {"name", "columns", "items_page"} \subseteq DOMAIN board
            /\ Has(board["items_page"], "items")
            /\ \A c \in 1..Len(board["columns"]) :
                  {"id", "title"} \subseteq DOMAIN board["columns"][c]
            /\ \A r \in 1..Len(ItemsOf(board)) :
                  /\ {"name", "column_values"} \subseteq DOMAIN ItemsOf(board)[r]
                  /\ \A k \in 1..Len(ItemsOf(board)[r]["column_values"]) :
                        {"id", "text"} \subseteq DOMAIN ItemsOf(board)[r]["column_values"][k]

BoardSubscripted(board) ==
    /\ {"name", "items_page"} \subseteq DOMAIN board
    /\ Has(board["items_page"], "items")
    /\ \A c \in 1..Len(ColumnsOf(board)) :
          {"id", "title"} \subseteq DOMAIN ColumnsOf(board)[c]
    /\ \A r \in 1..Len(ItemsOf(board)) :
          \A k \in 1..Len(ColumnValuesOf(ItemsOf(board)[r])) :
              Has(ColumnValuesOf(ItemsOf(board)[r])[k], "id")

SubscriptedShape(a) ==
    /\ Has(a, "data")
    /\ Has(a["data"], "boards")
    /\ \A b \in 1..Len(a["data"]["boards"]) : BoardSubscripted(a["data"]["boards"][b])

(***************************************************************************)
(* C7.  As stated: extract never returns on a response that lacks any key  *)
(* of the expected shape.                                                  *)
(***************************************************************************)
C7_AnyMissingKeyAborts ==
    pc = "returned" => FullShape(data)

(***************************************************************************)
(* C7, amended.  Extract never returns on a response that lacks data,      *)
(* boards, a board's name, items_page or items, a column value's id, or a  *)
(* column's id or title: the loop never gets past such a board, the call   *)
(* ends in a KeyError with nothing returned, the boards before it          *)
(* included; and a KeyError has no other cause (a missing columns, item    *)
(* name, column_values or text is read as empty or None).                  *)
(***************************************************************************)
C7_MissingSubscriptedKeyAborts ==
    /\ pc = "returned" => SubscriptedShape(data)
    /\ pc \in {"loop", "flattened"} =>
          \A b \in 1..(i - 1) : BoardSubscripted(boards[b])
    /\ raised = "KeyError" =>
          /\ pc = "raised"
          /\ returned = <<>>
          /\ ~SubscriptedShape(data)

\* A KeyError at the second board, the first board's table already built.
C7_Witness ==
    /\ pc = "raised"
    /\ raised = "KeyError"
    /\ Len(result) = 1
    /\ i = 2
    /\ returned = <<>>

(***************************************************************************)
(* C8.  A call of extract has issued no request before _fetch_data and     *)
(* exactly one from then on, however it ends and however many boards it    *)
(* loops over: a POST to the extractor's url with its headers, whose query *)
(* is the one built from all the configured identifiers.                   *)
(***************************************************************************)
C8_OneRequestPerCall ==
    /\ pc = "idle" => requests = <<>>
    /\ pc # "idle" =>
          /\ Len(requests) = 1
          /\ requests[1].url = self.url
          /\ requests[1].headers = self.headers
          /\ requests[1].json = [query |-> BuildQuery(self.board_ids)]
    /\ (result # <<>> \/ rows # <<>>) => Len(requests) = 1

\* Two boards flattened and returned on one request.
C8_Witness ==
    /\ pc = "returned"
    /\ Len(self.board_ids) = 2
    /\ Len(returned) = 2
    /\ Len(requests) = 1

\* The number of characters of an identifier's string form.
C9_Width(id) ==
    IF id.kind = "int"
    THEN CHOOSE w \in 1..12 : id.val < 10^w /\ (w = 1 \/ id.val >= 10^(w - 1))
    ELSE Len(id.val)

RECURSIVE C9_Start(_, _)
\* Where the k-th identifier starts in the query.
C9_Start(ids, k) ==
    IF k = 1 THEN 8
    ELSE C9_Start(ids, k - 1) + C9_Width(ids[k - 1]) + 2

RECURSIVE C9_Numeral(_)
\* The number a sequence of decimal digits denotes.
C9_Numeral(chars) ==
    IF chars = <<>> THEN 0
    ELSE 10 * C9_Numeral(SubSeq(chars, 1, Len(chars) - 1))
         + (CHOOSE d \in 0..9 : Digit[d + 1] = chars[Len(chars)])

C9_Selection ==
    <<"]", ")", "{", "name", "columns", "{", "id", "title", "}",
      "items_page", "(", "limit", ":", "5", "0", "0", ")", "{",
      "items", "{", "id", "name", "column_values", "{", "id", "text", "}",
      "}", "}", "}", "}">>

(***************************************************************************)
(* C9.  The query of a request, for a non-empty list of identifiers, is    *)
(* the head, then the identifiers' string forms in the given order, each   *)
(* once, ", " between neighbours, then the selection: name, columns        *)
(* {id title}, items_page (limit: 500) {items {id name column_values       *)
(* {id text}}}.  An int's string form is its decimal numeral, a str is     *)
(* copied character by character whatever it contains.                     *)
(***************************************************************************)
C9_QueryListsEveryId ==
    \A q \in 1..Len(requests) :
        self.board_ids # <<>> =>
            LET query == requests[q].json.query
                ids == self.board_ids
                n == Len(ids)
                stop == C9_Start(ids, n) + C9_Width(ids[n])
            IN  /\ SubSeq(query, 1, 7) = <<"query", "{", "boards", "(", "ids", ":", "[">>
                /\ \A k \in 1..n :
                      LET from == C9_Start(ids, k)
                          part == SubSeq(query, from, from + C9_Width(ids[k]) - 1)
                      IN  /\ IF ids[k].kind = "int"
                             THEN /\ \A c \in 1..Len(part) :
                                        \E d \in 1..10 : Digit[d] = part[c]
                                  /\ C9_Numeral(part) = ids[k].val
                             ELSE part = ids[k].val
                          /\ k < n =>
                                /\ query[from + C9_Width(ids[k])] = ","
                                /\ query[from + C9_Width(ids[k]) + 1] = " "
                /\ SelectSeq(SubSeq(query, stop, Len(query)),
                             LAMBDA token : token # "# This is the \"Item\" column")
                      = C9_Selection

\* A request for an int and a str that closes the bracket of the argument.
C9_Witness ==
    /\ Len(requests) = 1
    /\ self.board_ids = <<IntId(1205), StrId(<<"9", "]", ")">>)>>

\* What the returned list holds.
C10_Returned ==
    pc = "returned" =>
        /\ Len(returned) = Len(data["data"]["boards"])
        /\ \A b \in 1..Len(returned) :
              LET board == data["data"]["boards"][b]
              IN  /\ returned[b].name = board["name"]
                  /\ returned[b].data =
                        Rename(ExtractToDataframe(ItemsOf(board)),
                               ColumnMap(ColumnsOf(board)))
        /\ data = DefaultAnswer =>
              returned = <<[name |-> "B1",
                            data |-> [columns |-> <<"Status", "Item">>,
                                      rows |-> <<<<"Done", "Task A">>>>]]>>

(***************************************************************************)
(* C10.  When extract returns, the list holds one entry per board of the   *)
(* response, in the response's order and however many identifiers were     *)
(* asked for; each entry has its board's name and the table made from that *)
(* board's items and column definitions alone; the answer of the spec's    *)
(* scenario gives one table B1 with the record Status: Done, Item: Task A; *)
(* and no step changes the extractor.                                      *)
(***************************************************************************)
C10_OneResultPerBoard == [](C10_Returned) /\ [][self' = self]_vars

\* One identifier asked for, two boards with different column definitions
\* for c1 returned in the response's order.
C10_Witness ==
    /\ pc = "returned"
    /\ Len(returned) = 2
    /\ Len(self.board_ids) = 1
    /\ returned[1].name = "B2"
    /\ returned[2].name = "B4"
    /\ returned[1].data.columns = <<"Status", "Item", "Owner">>
    /\ returned[2].data.columns = <<"c1", "Item">>
=============================================================================
